---- MODULE Spec2Model ----
(***************************************************************************)
(* Model of agent/device.py: the Device wrapper around the Agent DVR HTTP  *)
(* API.  A Device holds a reference to a dict (_raw_result), two integers  *)
(* taken from it at construction (_oid, _ot) and a client whose get_state  *)
(* call is the only I/O.  Each method that talks to the client is split at *)
(* the blocking get_state call: the call step formats the path and issues  *)
(* the request, and the step in which the client returns or raises runs    *)
(* the rest of the method.                                                 *)
(*                                                                         *)
(* Python values are tagged records: [bool |-> b], [int |-> n],            *)
(* [str |-> <<chars>>], [none |-> "None"]; a dict is a function whose      *)
(* domain is its set of keys.  Request paths and URLs are TLA+ strings.    *)
(***************************************************************************)
EXTENDS Integers, Sequences, FiniteSets, TLC

VARIABLES
    _raw_result,   \* contents of the dict object self._raw_result refers to
    _oid,          \* self._oid
    _ot,           \* self._ot
    aliases,       \* references held outside the device to that same object
    pc,            \* "idle", or "waiting" inside client.get_state
    op,            \* the current / most recent call: [name, args]
    requests,      \* paths passed to client.get_state during that call
    response,      \* what client.get_state did in that call: return or raise
    result         \* outcome of that call for the caller: return or raise

vars == <<_raw_result, _oid, _ot, aliases, pc, op, requests, response, result>>

\* Largest event count the server reports in an eventcounts response.
MaxCount == 2

----------------------------------------------------------------------------
(* Python values *)

True == [bool |-> TRUE]
False == [bool |-> FALSE]
None == [none |-> "None"]
PyInt(n) == [int |-> n]
PyStr(chars) == [str |-> chars]
PyBool(b) == IF b THEN True ELSE False

EmptyDict == [k \in {} |-> None]

\* d[k] = v on a dict: the key is added when it is not there yet.
SetItem(d, k, v) == [x \in (DOMAIN d) \cup {k} |-> IF x = k THEN v ELSE d[x]]

\* Outcome of a call.
Ret(v) == [kind |-> "return", val |-> v]
Raise(e) == [kind |-> "raise", val |-> e]
Pending == [kind |-> "pending", val |-> "get_state"]
NoCall == [kind |-> "none", val |-> "get_state"]

DigitChar(d) ==
    CASE d = 0 -> "0" [] d = 1 -> "1" [] d = 2 -> "2" [] d = 3 -> "3"
      [] d = 4 -> "4" [] d = 5 -> "5" [] d = 6 -> "6" [] d = 7 -> "7"
      [] d = 8 -> "8" [] d = 9 -> "9"

CharDigit(c) ==
    CASE c = "0" -> 0 [] c = "1" -> 1 [] c = "2" -> 2 [] c = "3" -> 3
      [] c = "4" -> 4 [] c = "5" -> 5 [] c = "6" -> 6 [] c = "7" -> 7
      [] c = "8" -> 8 [] c = "9" -> 9

\* '{0}'.format(n) for an int n: its decimal digits.
RECURSIVE FormatNat(_)
FormatNat(n) == IF n < 10 THEN DigitChar(n)
                ELSE FormatNat(n \div 10) \o DigitChar(n % 10)

Format(n) == IF n < 0 THEN "-" \o FormatNat(0 - n) ELSE FormatNat(n)

\* int(s) for a str of decimal digits.
RECURSIVE ParseDigits(_)
ParseDigits(chars) ==
    IF chars = <<>> THEN 0
    ELSE 10 * ParseDigits(SubSeq(chars, 1, Len(chars) - 1))
         + CharDigit(chars[Len(chars)])

\* int(v) for the values the server sends as id and typeID.
int(v) == IF "int" \in DOMAIN v THEN v.int ELSE ParseDigits(v.str)

----------------------------------------------------------------------------
(* TimePeriod *)

ALL == [period |-> "all", title |-> "Events"]
HOUR == [period |-> "hour", title |-> "Events Last Hour"]
DAY == [period |-> "day", title |-> "Events Last Day"]
WEEK == [period |-> "week", title |-> "Events Last Week"]
MONTH == [period |-> "month", title |-> "Events Last Month"]

TimePeriod == {ALL, HOUR, DAY, WEEK, MONTH}

\* Arguments a caller passes to get_events: the enum members, and two values
\* that are no member (the bare token 'hour', and None).
TimePeriodArgs == TimePeriod \cup {PyStr(<<"h", "o", "u", "r">>), None}

----------------------------------------------------------------------------
(* Snapshots and client responses *)

DataBlock(v, p) ==
    [recording |-> v, alerted |-> v, online |-> v, alertsActive |-> v,
     connected |-> True, ptzid |-> p]

DataBlocks ==
    { EmptyDict,
      [online |-> True, ptzid |-> PyInt(3)],
      DataBlock(None, PyInt(-1)),
      DataBlock(True, PyInt(3)),
      DataBlock(False, PyInt(-1)) }

Cam1 == PyStr(<<"C", "a", "m", "1">>)

\* (id, typeID) as the server sends them.
IdPairs == { <<PyInt(5), PyInt(2)>>, <<PyStr(<<"1", "2">>), PyInt(3)>> }

Snapshots ==
    UNION { { [id |-> p[1], typeID |-> p[2], name |-> Cam1, data |-> d],
              [id |-> p[1], typeID |-> p[2], data |-> d],
              [id |-> p[1], typeID |-> p[2], name |-> Cam1],
              [id |-> p[1], typeID |-> p[2]] } : p \in IdPairs, d \in DataBlocks }

CountResponses == { [count |-> PyInt(n)] : n \in 0..MaxCount }

StatusOk == [status |-> PyStr(<<"o", "k">>)]

\* What client.get_state may return to a getObject request, to one of the
\* six command requests and to an eventcounts request.
ObjectResponses == Snapshots \cup {EmptyDict, StatusOk}
CommandResponses == {StatusOk, EmptyDict, [online |-> False]}
EventResponses == CountResponses \cup {EmptyDict}

\* What client.get_state may raise.
ClientErrors == {"ConnectionError", "JSONDecodeError"}

----------------------------------------------------------------------------
(* Device: construction *)

Call(method, args) == [name |-> method, args |-> args]

Init ==
    \E client_result \in Snapshots :
        /\ _raw_result = client_result
        /\ _oid = int(client_result["id"])
        /\ _ot = int(client_result["typeID"])
        /\ aliases = {"ctor_arg"}
        /\ pc = "idle"
        /\ op = Call("__init__", <<>>)
        /\ requests = <<>>
        /\ response = NoCall
        /\ result = Ret(None)

----------------------------------------------------------------------------
(* Device: read accessors.  Each is the outcome of reading the property in *)
(* the current state: Ret(value), or Raise("KeyError") from a subscript.   *)

\* d[k]
GetItem(d, k) == IF k \in DOMAIN d THEN Ret(d[k]) ELSE Raise("KeyError")

\* Variant of DataItem: self._raw_result['data'].get(key)
DataItem_get(key) ==
    IF "data" \in DOMAIN _raw_result
    THEN IF key \in DOMAIN _raw_result["data"]
         THEN Ret(_raw_result["data"][key])
         ELSE Ret(None)
    ELSE Raise("KeyError")

\* self._raw_result['data'][key]
DataItem(key) ==
    IF "data" \in DOMAIN _raw_result
    THEN GetItem(_raw_result["data"], key)
    ELSE Raise("KeyError")

\* Variant of id: int(self._raw_result['id'])
id_from_snapshot ==
    IF "id" \in DOMAIN _raw_result
    THEN Ret(PyInt(int(_raw_result["id"])))
    ELSE Raise("KeyError")

id == Ret(PyInt(_oid))

typeID == Ret(PyInt(_ot))

name == GetItem(_raw_result, "name")

mjpeg_image_url == Ret("video.mjpg?oid=" \o Format(_oid))

mp4_url == Ret("video.mp4?oid=" \o Format(_oid))

webm_url == Ret("video.webm?oid=" \o Format(_oid))

still_image_url == Ret("grab.jpg?oid=" \o Format(_oid))

recording == DataItem("recording")

alerted == DataItem("alerted")

online == DataItem("online")

alerts_active == DataItem("alertsActive")

connected == DataItem("connected")

\* Variant of has_ptz: the test of self._ot is left out.
has_ptz_any_type ==
    IF DataItem("ptzid").kind = "raise" THEN DataItem("ptzid")
    ELSE Ret(PyBool(DataItem("ptzid").val # PyInt(-1)))

\* `and` evaluates its right operand, and so the subscripts, only when the
\* left one is true.
has_ptz ==
    IF _ot # 2 THEN Ret(False)
    ELSE IF DataItem("ptzid").kind = "raise" THEN DataItem("ptzid")
    ELSE Ret(PyBool(DataItem("ptzid").val # PyInt(-1)))

raw_result == Ret(_raw_result)

Properties ==
    {"id", "typeID", "name", "mjpeg_image_url", "mp4_url", "webm_url",
     "still_image_url", "recording", "alerted", "online", "alerts_active",
     "connected", "has_ptz"}

PropertyValue(p) ==
    CASE p = "id" -> id
      [] p = "typeID" -> typeID
      [] p = "name" -> name
      [] p = "mjpeg_image_url" -> mjpeg_image_url
      [] p = "mp4_url" -> mp4_url
      [] p = "webm_url" -> webm_url
      [] p = "still_image_url" -> still_image_url
      [] p = "recording" -> recording
      [] p = "alerted" -> alerted
      [] p = "online" -> online
      [] p = "alerts_active" -> alerts_active
      [] p = "connected" -> connected
      [] p = "has_ptz" -> has_ptz

\* The caller reads one of the properties: no request, no assignment.
ReadProperty ==
    /\ pc = "idle"
    /\ \E p \in Properties :
        /\ op' = Call(p, <<>>)
        /\ result' = PropertyValue(p)
    /\ requests' = <<>>
    /\ response' = NoCall
    /\ UNCHANGED <<_raw_result, _oid, _ot, aliases, pc>>

\* raw_result hands out the reference self._raw_result itself.
RawResultAliases == aliases \cup {"raw_result"}

ReadRawResult ==
    /\ pc = "idle"
    /\ op' = Call("raw_result", <<>>)
    /\ result' = raw_result
    /\ aliases' = RawResultAliases
    /\ requests' = <<>>
    /\ response' = NoCall
    /\ UNCHANGED <<_raw_result, _oid, _ot, pc>>

\* Code outside the device assigns through a reference it holds to the dict
\* the device refers to: ref['data']['online'] = v.
CallerWrite ==
    /\ pc = "idle"
    /\ aliases # {}
    /\ "data" \in DOMAIN _raw_result
    /\ \E v \in {True, False} :
        _raw_result' =
            SetItem(_raw_result, "data", SetItem(_raw_result["data"], "online", v))
    /\ op' = Call("caller_write", <<>>)
    /\ result' = Ret(None)
    /\ requests' = <<>>
    /\ response' = NoCall
    /\ UNCHANGED <<_oid, _ot, aliases, pc>>

----------------------------------------------------------------------------
(* Device: methods that call client.get_state *)

\* The method formats `path` and enters client.get_state(path).
GetState(method, args, path) ==
    /\ pc = "idle"
    /\ pc' = "waiting"
    /\ op' = Call(method, args)
    /\ requests' = <<path>>
    /\ response' = Pending
    /\ result' = Pending
    /\ UNCHANGED <<_raw_result, _oid, _ot, aliases>>

\* client.get_state returns r into the method.
Returns(method, r) ==
    /\ pc = "waiting"
    /\ op.name = method
    /\ pc' = "idle"
    /\ response' = Ret(r)
    /\ UNCHANGED <<op, requests>>

\* Variant of ClientRaises: the request is issued a second time before the
\* exception is passed on.
ClientRaises_retry ==
    /\ pc = "waiting"
    /\ pc' = "idle"
    /\ \E e \in ClientErrors :
        /\ response' = Raise(e)
        /\ result' = Raise(e)
    /\ requests' = requests \o requests
    /\ UNCHANGED <<_raw_result, _oid, _ot, aliases, op>>

\* client.get_state raises: no method has a try block, so the exception
\* leaves the method at the call and nothing after the call runs.
ClientRaises ==
    /\ pc = "waiting"
    /\ pc' = "idle"
    /\ \E e \in ClientErrors :
        /\ response' = Raise(e)
        /\ result' = Raise(e)
    /\ UNCHANGED <<_raw_result, _oid, _ot, aliases, op, requests>>

update_path ==
    "command.cgi?cmd=getObject&oid=" \o Format(_oid) \o "&ot=" \o Format(_ot)

\* Variant of update_raw_result: self._raw_result.update(client_result)
update_merge(client_result) ==
    [k \in (DOMAIN _raw_result) \cup (DOMAIN client_result) |->
        IF k \in DOMAIN client_result THEN client_result[k] ELSE _raw_result[k]]

\* The value update() binds self._raw_result to, given what the client returned.
update_raw_result(client_result) == client_result

update ==
    \/ GetState("update", <<>>, update_path)
    \/ \E r \in ObjectResponses :
        /\ Returns("update", r)
        /\ _raw_result' = update_raw_result(r)
        /\ aliases' = {"response"}
        /\ result' = Ret(None)
        /\ UNCHANGED <<_oid, _ot>>

\* Variant of StoreData: the field is taken from the response when the
\* response has it.
StoreData_from_response(r, key, val) ==
    IF "data" \in DOMAIN _raw_result
    THEN /\ _raw_result' =
                SetItem(_raw_result, "data",
                        SetItem(_raw_result["data"], key,
                                IF key \in DOMAIN r THEN r[key] ELSE val))
         /\ result' = Ret(None)
    ELSE /\ _raw_result' = _raw_result
         /\ result' = Raise("KeyError")

\* self._raw_result['data'][key] = val, after the client returned r (which
\* the command methods discard).
StoreData(r, key, val) ==
    IF "data" \in DOMAIN _raw_result
    THEN /\ _raw_result' =
                SetItem(_raw_result, "data", SetItem(_raw_result["data"], key, val))
         /\ result' = Ret(None)
    ELSE /\ _raw_result' = _raw_result
         /\ result' = Raise("KeyError")

Command(method, path, key, val) ==
    \/ GetState(method, <<>>, path)
    \/ \E r \in CommandResponses :
        /\ Returns(method, r)
        /\ StoreData(r, key, val)
        /\ UNCHANGED <<_oid, _ot, aliases>>

enable_path ==
    "command.cgi?cmd=switchOn&oid=" \o Format(_oid) \o "&ot=" \o Format(_ot)

\* Variant of disable_path: the template of enable.
disable_path_switchOn ==
    "command.cgi?cmd=switchOn&oid=" \o Format(_oid) \o "&ot=" \o Format(_ot)

disable_path ==
    "command.cgi?cmd=switchOff&oid=" \o Format(_oid) \o "&ot=" \o Format(_ot)

record_path ==
    "command.cgi?cmd=record&oid=" \o Format(_oid) \o "&ot=" \o Format(_ot)

record_stop_path ==
    "command.cgi?cmd=recordStop&oid=" \o Format(_oid) \o "&ot=" \o Format(_ot)

alerts_on_path ==
    "command.cgi?cmd=alertsOn&oid=" \o Format(_oid) \o "&ot=" \o Format(_ot)

alerts_off_path ==
    "command.cgi?cmd=alertsOff&oid=" \o Format(_oid) \o "&ot=" \o Format(_ot)

enable == Command("enable", enable_path, "online", True)

disable == Command("disable", disable_path, "online", False)

\* Variant of record: the assignment of enable.
record_sets_online == Command("record", record_path, "online", True)

record == Command("record", record_path, "recording", True)

record_stop == Command("record_stop", record_stop_path, "recording", False)

alerts_on == Command("alerts_on", alerts_on_path, "alertsActive", True)

alerts_off == Command("alerts_off", alerts_off_path, "alertsActive", False)

\* Variant of date_filter: a month of 31 days.
date_filter_month31(time_period) ==
    LET d0 == 3600 * 24 * 365 * 20
        d1 == IF time_period = HOUR THEN 3600 ELSE d0
        d2 == IF time_period = DAY THEN 3600 * 24 ELSE d1
        d3 == IF time_period = WEEK THEN 3600 * 24 * 7 ELSE d2
        d4 == IF time_period = MONTH THEN 3600 * 24 * 31 ELSE d3
    IN  d4

\* The four `if` statements of get_events, in their order.
date_filter(time_period) ==
    LET d0 == 3600 * 24 * 365 * 20
        d1 == IF time_period = HOUR THEN 3600 ELSE d0
        d2 == IF time_period = DAY THEN 3600 * 24 ELSE d1
        d3 == IF time_period = WEEK THEN 3600 * 24 * 7 ELSE d2
        d4 == IF time_period = MONTH THEN 3600 * 24 * 30 ELSE d3
    IN  d4

get_events_path(time_period) ==
    "eventcounts.json?oid=" \o Format(_oid) \o "&ot=" \o Format(_ot)
        \o "&secs=" \o Format(date_filter(time_period))

get_events ==
    \/ \E time_period \in TimePeriodArgs :
        GetState("get_events", <<time_period>>, get_events_path(time_period))
    \/ \E count_response \in EventResponses :
        /\ Returns("get_events", count_response)
        /\ result' = GetItem(count_response, "count")
        /\ UNCHANGED <<_raw_result, _oid, _ot, aliases>>

----------------------------------------------------------------------------

Next ==
    \/ ReadProperty
    \/ ReadRawResult
    \/ CallerWrite
    \/ update
    \/ enable
    \/ disable
    \/ record
    \/ record_stop
    \/ alerts_on
    \/ alerts_off
    \/ get_events
    \/ ClientRaises

Spec == Init /\ [][Next]_vars

----------------------------------------------------------------------------
(* Properties *)

Commands ==
    {"enable", "disable", "record", "record_stop", "alerts_on", "alerts_off"}

NetMethods == Commands \cup {"update", "get_events"}

Returned(method) == pc = "idle" /\ op.name = method /\ result.kind = "return"

\* C1: a command that returns leaves its field at the commanded value:
\* online is True after enable() and False after disable(), recording is True
\* after record() and False after record_stop(), alertsActive is True after
\* alerts_on() and False after alerts_off(), whatever the snapshot held before
\* and whatever the client answered.
C1_CommandSetsField ==
    /\ Returned("enable") => online = Ret(True)
    /\ Returned("disable") => online = Ret(False)
    /\ Returned("record") => recording = Ret(True)
    /\ Returned("record_stop") => recording = Ret(False)
    /\ Returned("alerts_on") => alerts_active = Ret(True)
    /\ Returned("alerts_off") => alerts_active = Ret(False)

\* enable() returned although the client's payload said online: false.
C1_Witness ==
    /\ Returned("enable")
    /\ response = Ret([online |-> False])
    /\ online = Ret(True)

\* C2: when update() has returned, the cached snapshot is exactly the dict
\* the client returned for the getObject request.
C2_UpdateReplacesSnapshot ==
    Returned("update") => _raw_result = response.val

\* update() returned a response that has none of the snapshot's keys, and
\* none of them is left in the cache.
C2_Witness ==
    /\ Returned("update")
    /\ response = Ret(StatusOk)
    /\ DOMAIN _raw_result = {"status"}

\* The path the method named in op is to request, from the fixed templates.
TemplateCmd(method) ==
    CASE method = "update" -> "getObject"
      [] method = "enable" -> "switchOn"
      [] method = "disable" -> "switchOff"
      [] method = "record" -> "record"
      [] method = "record_stop" -> "recordStop"
      [] method = "alerts_on" -> "alertsOn"
      [] method = "alerts_off" -> "alertsOff"

TableSecs(time_period) ==
    CASE time_period = HOUR -> "3600"
      [] time_period = DAY -> "86400"
      [] time_period = WEEK -> "604800"
      [] time_period = MONTH -> "2592000"
      [] OTHER -> "630720000"

TemplatePath ==
    IF op.name = "get_events"
    THEN "eventcounts.json?oid=" \o Format(_oid) \o "&ot=" \o Format(_ot)
            \o "&secs=" \o TableSecs(op.args[1])
    ELSE "command.cgi?cmd=" \o TemplateCmd(op.name) \o "&oid=" \o Format(_oid)
            \o "&ot=" \o Format(_ot)

\* C3: _oid and _ot are the integers of the snapshot given to the
\* constructor and never change; id and typeID return them, and every request
\* path carries them, also after a refresh brought another id or typeID.
C3_IdentityFromConstruction ==
    /\ [](op.name = "__init__" =>
            \/ /\ _raw_result["id"] = PyInt(5) /\ _oid = 5
               /\ _raw_result["typeID"] = PyInt(2) /\ _ot = 2
            \/ /\ _raw_result["id"] = PyStr(<<"1", "2">>) /\ _oid = 12
               /\ _raw_result["typeID"] = PyInt(3) /\ _ot = 3)
    /\ [][_oid' = _oid /\ _ot' = _ot]_vars
    /\ [](op.name = "id" => result = Ret(PyInt(_oid)))
    /\ [](op.name = "typeID" => result = Ret(PyInt(_ot)))
    /\ [](op.name \in NetMethods => requests = <<TemplatePath>>)

\* id is read after a refresh whose response carries another id.
C3_Witness ==
    /\ op.name = "id"
    /\ aliases = {"response"}
    /\ "id" \in DOMAIN _raw_result
    /\ _raw_result["id"] = PyStr(<<"1", "2">>)
    /\ result = Ret(PyInt(5))

\* C4: the snapshot the device reports changes in no step other than a
\* refresh or the optimistic update of a command.
C4_SnapshotChangesOnlyByDevice ==
    [][_raw_result' # _raw_result =>
        /\ pc = "waiting"
        /\ op'.name \in Commands \cup {"update"}]_vars

OptionalFields ==
    {<<"recording", "recording">>, <<"alerted", "alerted">>,
     <<"online", "online">>, <<"alerts_active", "alertsActive">>}

\* C5 as stated: with a data block that lacks the field, the accessor yields
\* the unknown value and does not fail.
C5_AbsentFieldIsUnknown ==
    \A f \in OptionalFields :
        (/\ op.name = f[1]
         /\ "data" \in DOMAIN _raw_result
         /\ f[2] \notin DOMAIN _raw_result["data"])
        => result = Ret(None)

\* C5 amended: with a data block, the accessor returns what the block stores
\* under the key, None (unknown) included, and fails with KeyError when the
\* key is not in the block.
C5_FieldReadsStoredValueOrKeyError ==
    \A f \in OptionalFields :
        (op.name = f[1] /\ "data" \in DOMAIN _raw_result) =>
            IF f[2] \in DOMAIN _raw_result["data"]
            THEN result = Ret(_raw_result["data"][f[2]])
            ELSE result = Raise("KeyError")

\* recording is read from a data block that has online but not recording.
C5_Witness ==
    /\ op.name = "recording"
    /\ "data" \in DOMAIN _raw_result
    /\ DOMAIN _raw_result["data"] = {"online", "ptzid"}
    /\ result = Raise("KeyError")

\* C6: when client.get_state raises, the caller gets that very exception, the
\* call has issued its one request and no other, and the snapshot is as it was.
C6_ClientFailurePropagates ==
    [][(pc = "waiting" /\ response'.kind = "raise") =>
        /\ pc' = "idle"
        /\ result' = response'
        /\ requests' = requests
        /\ Len(requests') = 1
        /\ _raw_result' = _raw_result
        /\ aliases' = aliases]_vars

\* The client failed during disable() on a device that was online.
C6_Witness ==
    /\ pc = "idle"
    /\ op.name = "disable"
    /\ response = Raise("ConnectionError")
    /\ result = Raise("ConnectionError")
    /\ online = Ret(True)

\* C7: get_events requests eventcounts.json with secs from the table, 20
\* years for ALL and for any argument outside the table, and returns the
\* count of the response.
C7_EventsRequestAndCount ==
    op.name = "get_events" =>
        /\ requests = <<"eventcounts.json?oid=" \o Format(_oid) \o "&ot="
                            \o Format(_ot) \o "&secs=" \o TableSecs(op.args[1])>>
        /\ (pc = "idle" /\ response.kind = "return"
                /\ "count" \in DOMAIN response.val)
            => result = Ret(response.val["count"])

\* get_events(None) returned the count 1 after asking for 20 years.
C7_Witness ==
    /\ Returned("get_events")
    /\ op.args = <<None>>
    /\ requests \in {<<"eventcounts.json?oid=5&ot=2&secs=630720000">>}
    /\ result = Ret(PyInt(1))

PtzidReadable ==
    /\ "data" \in DOMAIN _raw_result
    /\ "ptzid" \in DOMAIN _raw_result["data"]

C9_OneRequestBeforeChange ==
    /\ [](op.name \in NetMethods => requests = <<TemplatePath>>)
    /\ [][op'.name \in NetMethods =>
            /\ requests' # requests => (pc = "idle" /\ pc' = "waiting")
            /\ _raw_result' # _raw_result =>
                (pc = "waiting" /\ response'.kind = "return")]_vars

\* record_stop() has returned after its single recordStop request.
C9_Witness ==
    /\ Returned("record_stop")
    /\ requests \in {<<"command.cgi?cmd=recordStop&oid=12&ot=3">>}
    /\ recording = Ret(False)

CommandField(method) ==
    CASE method \in {"enable", "disable"} -> "online"
      [] method \in {"record", "record_stop"} -> "recording"
      [] method \in {"alerts_on", "alerts_off"} -> "alertsActive"

\* The two dicts differ at most in d["data"][key].
SameExceptData(d, e, key) ==
    /\ DOMAIN d = DOMAIN e
    /\ \A k \in DOMAIN d \ {"data"} : d[k] = e[k]
    /\ "data" \in DOMAIN d =>
        /\ DOMAIN d["data"] \ {key} = DOMAIN e["data"] \ {key}
        /\ \A k \in DOMAIN d["data"] \ {key} : d["data"][k] = e["data"][k]

\* C10: a command changes at most its own field of the data block and
\* nothing else of the snapshot; get_events and the read accessors change
\* nothing of it.
C10_Frame ==
    [][/\ op'.name \in Commands =>
            SameExceptData(_raw_result, _raw_result', CommandField(op'.name))
       /\ op'.name \in Properties \cup {"raw_result", "get_events"} =>
            _raw_result' = _raw_result]_vars

\* alerts_on() has returned and name, online and ptzid are what the server
\* sent.
C10_Witness ==
    /\ Returned("alerts_on")
    /\ name = Ret(Cam1)
    /\ online = Ret(None)
    /\ alerts_active = Ret(True)
    /\ DataItem("ptzid") = Ret(PyInt(-1))

====
